---- MODULE Spec2Model ----
(***************************************************************************)
(* A model of gosolu/shttp: the abort/redirect signal carried by a         *)
(* context, the two hook registries and the folds ListenAndServe runs over *)
(* them, and the trace helpers of http.go.                                 *)
(*                                                                         *)
(* A context.Context is modelled by the chain of (key, value) attachments  *)
(* from context.Background() down to it; the nil interface value is a      *)
(* separate value.  ctx.Value(key) finds the nearest attachment whose key  *)
(* is equal to key, where two keys are equal as Go interface values are:   *)
(* same dynamic type and equal value.                                      *)
(***************************************************************************)
EXTENDS Integers, Sequences, FiniteSets, TLC

VARIABLES
    \* ---- unnamed/part_000: the hook registries and ListenAndServe
    startTime,      \* ListenAndServe: startTime := time.Now().Unix()
    hooks,          \* [registry -> the slice contextHooks.hooks]
    mutex,          \* [registry -> whether contextHooks.Mutex is locked]
    regArgs,        \* [registrar -> the hooks ...ContextHook it was called with]
    regPc,          \* [registrar -> position inside AddBaseHooks/AddConnHooks]
    regI,           \* [registrar -> index of the hook its loop is at]
    regTmp,         \* [registrar -> the slice value read by append(ch.hooks, ..)]
    foldPc,         \* [fold -> "idle" | "locked" | "done"]
    foldHooks,      \* [fold -> the slice the range statement iterates]
    foldI,          \* [fold -> index of the next hook of the range]
    foldIn,         \* [fold -> the context the fold started from]
    foldAcc,        \* [fold -> the closure's variable ctx]
    callLog,        \* history: [fold -> the hook calls made, in order]
    addLog,         \* history: [registry -> the hooks in the order appended]
    regsDoneAtBase, \* history: all registrars had returned when baseContext began
    kept,           \* the variable in which the hook "keep" keeps a context
    \* ---- unnamed/part_000: the abort signal
    ctxs,           \* the contexts the handlers hold, in order of creation
    abortHeap,      \* the abortValueType variables allocated, by address
    parentOf,       \* history: [context -> the context it was derived from]
    callsOf,        \* history: [context -> the Abort*/Redirect calls of its lineage]
    \* ---- http.go: the trace flags, the call wrapper, the trace merge
    tctx,           \* the context a caller holds
    tcalls,         \* history: the functions that derived tctx, in order
    last,           \* history: the call just made, its arguments and its results
    \* ---- calls of the package's own helpers
    lcall,          \* a metricLabels call: its arguments and what it returned
    vcall           \* an isValidContext call: its arguments and what it returned

hookVars == <<startTime, hooks, mutex, regArgs, regPc, regI, regTmp, foldPc,
              foldHooks, foldI, foldIn, foldAcc, callLog, addLog, regsDoneAtBase,
              kept>>

abortVars == <<ctxs, abortHeap, parentOf, callsOf>>

traceVars == <<tctx, tcalls, last>>

callVars == <<lcall, vcall>>

vars == <<hookVars, abortVars, traceVars, callVars>>

-----------------------------------------------------------------------------
(* Bounds *)

\* the number of hooks passed to the first AddBaseHooks call
MaxArgs == 2
\* the number of accepted connections
NumConns == 2
\* the longest hook list registered before the listener starts (SpecFold)
MaxHooks == 2
\* the number of Abort*/Redirect calls made (SpecAbort)
MaxAborts == 3
\* the number of attachments a caller makes to its context (SpecTrace)
MaxLineage == 2

-----------------------------------------------------------------------------
(* Values and contexts *)

Max(S) == CHOOSE x \in S : \A y \in S : y <= x

\* Go values stored in a context, tagged with their dynamic type.
NilValue == [t |-> "nil", n |-> 0, s |-> ""]
Int64(n) == [t |-> "int64", n |-> n, s |-> ""]
Bool(b) == [t |-> "bool", n |-> IF b THEN 1 ELSE 0, s |-> ""]
Str(s) == [t |-> "string", n |-> 0, s |-> s]
\* a value of Go type int
GoInt(n) == [t |-> "int", n |-> n, s |-> ""]
\* a *abortValueType pointing at address a of abortHeap
Ptr(a) == [t |-> "*abortValueType", n |-> a, s |-> ""]

\* Context keys.  A key is its dynamic type together with its value; the
\* key types are all empty structs, so the type alone decides equality.
startupContextKey == "startupContextType{}"
abortContextKey == "abortContextType{}"
\* var ( ctxMetricKey ctxKeyType; ctxTraceKey ctxKeyType; ctxLogKey ctxKeyType ):
\* three variables of one empty struct type, so three equal keys
ctxMetricKey == "ctxKeyType{}"
ctxTraceKey == "ctxKeyType{}"
ctxLogKey == "ctxKeyType{}"
ServerContextKey == "net/http.contextKey{http-server}"

NilCtx == [isNil |-> TRUE, vals |-> <<>>]
Background == [isNil |-> FALSE, vals |-> <<>>]

\* context.WithValue allocates a node below ctx.  Two nodes are the same node
\* only when the same call allocated them: site tells the nodes allocated
\* under another ListenAndServe call ("other") from those of the program
\* modelled ("").
WithValueAt(ctx, key, val, site) ==
    [isNil |-> FALSE,
     vals |-> Append(ctx.vals, [k |-> key, v |-> val, site |-> site])]

WithValue(ctx, key, val) == WithValueAt(ctx, key, val, "")

\* a lookup that finds the attachment nearest the root
ValueFirst(ctx, key) ==
    LET at == {i \in DOMAIN ctx.vals : ctx.vals[i].k = key}
    IN  IF at = {} THEN NilValue
        ELSE ctx.vals[CHOOSE i \in at : \A j \in at : i <= j].v

Value(ctx, key) ==
    LET at == {i \in DOMAIN ctx.vals : ctx.vals[i].k = key}
    IN  IF at = {} THEN NilValue ELSE ctx.vals[Max(at)].v

\* a check that lets the zero token pass
isValidContextFromZero(ctx, ts) ==
    IF ctx.isNil THEN FALSE
    ELSE LET val == Value(ctx, startupContextKey)
         IN  IF val = NilValue THEN FALSE
             ELSE IF val.t # "int64" \/ val.n < 0 THEN FALSE
             ELSE IF Len(ts) > 0 /\ val.n # ts[1] THEN FALSE
             ELSE TRUE

\* ts is the variadic parameter: a sequence of zero or more timestamps
isValidContext(ctx, ts) ==
    IF ctx.isNil THEN FALSE
    ELSE LET val == Value(ctx, startupContextKey)
         IN  IF val = NilValue THEN FALSE
             ELSE IF val.t # "int64" \/ val.n <= 0 THEN FALSE
             ELSE IF Len(ts) > 0 /\ val.n # ts[1] THEN FALSE
             ELSE TRUE

-----------------------------------------------------------------------------
(* Hooks *)

\* The start times a listener may read from the clock (seconds, > 0).
StartTimes == {1, 2}

\* The ContextHook functions registered.  Each is a function from context to
\* context:
\*   tagA, tagB  attach a value to the context they are given
\*   nil         returns a nil context
\*   fresh       returns context.Background()
\*   foreign     returns the connection context of another listener of the
\*               process, started at Max(StartTimes): stamped, but not derived
\*               from the context the hook is given
HookKinds == {"tagA", "tagB", "nil", "fresh", "foreign"}

\* A hook with a variable of its own:
\*   keep        keeps the context of its first call in a variable and
\*               returns that context from every call:
\*               if kept == nil { kept = ctx }; return kept
KeepKinds == {"tagA", "keep"}

\* Hooks that register a hook while they run:
\*   regBase     calls AddBaseHooks(tagA) and returns the context it is given
\*   regConn     calls AddConnHooks(tagA) and returns the context it is given
RegKinds == {"regBase", "regConn"}
RegTarget(kind) == IF kind = "regBase" THEN "base" ELSE "conn"

\* the variable of "keep" after a call of a hook
HookKeeps(kind, ctx) ==
    IF kind = "keep" /\ kept.isNil THEN ctx ELSE kept

HookApply(kind, ctx) ==
    CASE kind = "tagA" -> WithValue(ctx, "hookKeyA{}", Str("a"))
      [] kind = "keep" -> HookKeeps(kind, ctx)
      [] kind \in RegKinds -> ctx
      [] kind = "tagB" -> WithValue(ctx, "hookKeyB{}", Str("b"))
      [] kind = "nil" -> NilCtx
      [] kind = "fresh" -> Background
      [] kind = "foreign" ->
            WithValueAt(WithValueAt(Background, startupContextKey,
                                    Int64(Max(StartTimes)), "other"),
                        ServerContextKey, Str("srv"), "other")

-----------------------------------------------------------------------------
(* Processes *)

Registries == {"base", "conn"}

\* Callers of AddBaseHooks (b1, b2) and of AddConnHooks (c1)
Registrars == {"b1", "b2", "c1"}
RegistryOf(r) == IF r = "c1" THEN "conn" ELSE "base"
ArgLen(r) == IF r = "b1" THEN MaxArgs ELSE 1
\* The hooks each caller may pass when the calls run concurrently
KindsOf(r) ==
    CASE r = "b1" -> {"tagA", "fresh"}
      [] r = "b2" -> {"tagB"}
      [] r = "c1" -> {"tagA", "nil"}

Conns == 1..NumConns
Folds == {0} \cup Conns       \* 0 is baseContext, n > 0 is connContext of conn n
FoldRegistry(f) == IF f = 0 THEN "base" ELSE "conn"

SeqsOfLen(S, n) == [1..n -> S]

\* no request is being handled: the only context is context.Background()
NoHandlers ==
    /\ ctxs = <<Background>>
    /\ abortHeap = <<>>
    /\ parentOf = <<0>>
    /\ callsOf = << <<>> >>

\* The arguments and results of a call, "" and <<>> where it has none
NoRequest == [isNil |-> TRUE, hdrNil |-> TRUE, tp |-> <<>>]
NoOutcome ==
    [res |-> "", err |-> "", req |-> NoRequest, called |-> FALSE,
     panicked |-> FALSE]
NoCall ==
    [fn |-> "", ctx |-> Background, calls |-> <<>>, req |-> NoRequest,
     clientNil |-> FALSE, res |-> NoRequest, out |-> NoOutcome,
     ctxOut |-> Background]

\* metricLabels and isValidContext have not been called
NoHelperCall == [called |-> FALSE]

\* no caller has made a call: it holds context.Background()
NoCallers ==
    /\ tctx = Background
    /\ tcalls = <<>>
    /\ last = NoCall
    /\ lcall = NoHelperCall
    /\ vcall = NoHelperCall

Init ==
    /\ startTime \in StartTimes
    /\ hooks = [ch \in Registries |-> <<>>]
    /\ mutex = [ch \in Registries |-> FALSE]
    /\ \E a \in SeqsOfLen(KindsOf("b1"), ArgLen("b1")),
          b \in SeqsOfLen(KindsOf("b2"), ArgLen("b2")),
          c \in SeqsOfLen(KindsOf("c1"), ArgLen("c1")) :
            regArgs = [r \in Registrars |->
                          IF r = "b1" THEN a ELSE IF r = "b2" THEN b ELSE c]
    /\ regPc = [r \in Registrars |-> "lock"]
    /\ regI = [r \in Registrars |-> 1]
    /\ regTmp = [r \in Registrars |-> <<>>]
    /\ foldPc = [f \in Folds |-> "idle"]
    /\ foldHooks = [f \in Folds |-> <<>>]
    /\ foldI = [f \in Folds |-> 1]
    /\ foldIn = [f \in Folds |-> NilCtx]
    /\ foldAcc = [f \in Folds |-> NilCtx]
    /\ callLog = [f \in Folds |-> <<>>]
    /\ addLog = [ch \in Registries |-> <<>>]
    /\ regsDoneAtBase = FALSE
    /\ kept = NilCtx
    /\ NoHandlers
    /\ NoCallers

-----------------------------------------------------------------------------
(* contextHooks.Add, AddBaseHooks, AddConnHooks *)

\* a Lock that never waits
CanLockAlways(ch) == TRUE

\* sync.Mutex.Lock returns only when the mutex is unlocked ...
CanLock(ch) == ~mutex[ch]

\* a Lock that does not take the mutex
LockNoop(m, ch) == m

\* ... and leaves it locked
Lock(m, ch) == [m EXCEPT ![ch] = TRUE]

Unlock(m, ch) == [m EXCEPT ![ch] = FALSE]

\* The ContextHook value a registrar passes: the function (its kind) and which
\* argument of which call it is.
HookOf(r, i) == [reg |-> r, idx |-> i, kind |-> regArgs[r][i]]

AddLock(r, ch) ==
    /\ regPc[r] = "lock"
    /\ CanLock(ch)
    /\ mutex' = Lock(mutex, ch)
    /\ regPc' = [regPc EXCEPT ![r] = "read"]
    /\ UNCHANGED <<abortVars, traceVars, callVars, kept, startTime, hooks, regArgs, regI, regTmp, foldPc, foldHooks,
                   foldI, foldIn, foldAcc, callLog, addLog, regsDoneAtBase>>

\* ch.hooks = append(ch.hooks, hook): the slice is read ...
AddRead(r, ch) ==
    /\ regPc[r] = "read"
    /\ regTmp' = [regTmp EXCEPT ![r] = hooks[ch]]
    /\ regPc' = [regPc EXCEPT ![r] = "write"]
    /\ UNCHANGED <<abortVars, traceVars, callVars, kept, startTime, hooks, mutex, regArgs, regI, foldPc, foldHooks,
                   foldI, foldIn, foldAcc, callLog, addLog, regsDoneAtBase>>

\* an append that puts the new element first
appendFront(s, e) == <<e>> \o s

\* the builtin append(slice, elem)
append(s, e) == Append(s, e)

\* ... and the longer slice is stored back
AddWrite(r, ch) ==
    /\ regPc[r] = "write"
    /\ hooks' = [hooks EXCEPT ![ch] = append(regTmp[r], HookOf(r, regI[r]))]
    /\ addLog' = [addLog EXCEPT ![ch] = Append(@, HookOf(r, regI[r]))]
    /\ regPc' = [regPc EXCEPT ![r] = "unlock"]
    /\ UNCHANGED <<abortVars, traceVars, callVars, kept, startTime, mutex, regArgs, regI, regTmp, foldPc, foldHooks,
                   foldI, foldIn, foldAcc, callLog, regsDoneAtBase>>

\* defer ch.Unlock(), and the caller's loop moves to its next hook
AddUnlock(r, ch) ==
    /\ regPc[r] = "unlock"
    /\ mutex' = Unlock(mutex, ch)
    /\ regPc' = [regPc EXCEPT ![r] =
                    IF regI[r] < Len(regArgs[r]) THEN "lock" ELSE "done"]
    /\ regI' = [regI EXCEPT ![r] = @ + 1]
    /\ regTmp' = [regTmp EXCEPT ![r] = <<>>]
    /\ UNCHANGED <<abortVars, traceVars, callVars, kept, startTime, hooks, regArgs, foldPc, foldHooks,
                   foldI, foldIn, foldAcc, callLog, addLog, regsDoneAtBase>>

Add(r, ch) ==
    \/ AddLock(r, ch)
    \/ AddRead(r, ch)
    \/ AddWrite(r, ch)
    \/ AddUnlock(r, ch)

AddBaseHooks(r) == RegistryOf(r) = "base" /\ Add(r, "base")

AddConnHooks(r) == RegistryOf(r) = "conn" /\ Add(r, "conn")

-----------------------------------------------------------------------------
(* ListenAndServe: the baseContext and connContext closures *)

\* a range that runs from the last hook to the first
RangeElemReversed(s, i) == s[Len(s) + 1 - i]

\* for _, fn := range hooks: the i-th iteration's fn
RangeElem(s, i) == s[i]

\* a loop body that adopts whatever the hook returned
AdoptUnchecked(ctx, fnCtx, start) == fnCtx

\* The loop body after the call: keep ctx when fnCtx is not valid for the
\* listener's start time, else ctx = fnCtx
Adopt(ctx, fnCtx, start) ==
    IF ~isValidContext(fnCtx, <<start>>) THEN ctx ELSE fnCtx

\* http.Server hands ConnContext a context derived from the base context
ServerContext(baseCtx) == WithValue(baseCtx, ServerContextKey, Str("srv"))

FoldLock(f, ch, initial) ==
    /\ foldPc[f] = "idle"
    /\ CanLock(ch)
    /\ mutex' = Lock(mutex, ch)
    /\ foldPc' = [foldPc EXCEPT ![f] = "locked"]
    /\ foldIn' = [foldIn EXCEPT ![f] = initial]
    /\ foldAcc' = [foldAcc EXCEPT ![f] = initial]
    /\ foldHooks' = [foldHooks EXCEPT ![f] = hooks[ch]]
    /\ foldI' = [foldI EXCEPT ![f] = 1]

\* one variable ctx for all the connections
SharedCtx(acc, f) == IF f = 0 THEN acc[0] ELSE acc[1]

\* ctx inside the closure: the parameter of this call of the closure
ClosureCtx(acc, f) == acc[f]

FoldStep(f) ==
    /\ foldPc[f] = "locked"
    /\ foldI[f] <= Len(foldHooks[f])
    /\ RangeElem(foldHooks[f], foldI[f]).kind \notin RegKinds
    /\ LET fn == RangeElem(foldHooks[f], foldI[f])
           fnCtx == HookApply(fn.kind, ClosureCtx(foldAcc, f))
           ctx == Adopt(ClosureCtx(foldAcc, f), fnCtx, startTime)
       IN  /\ foldAcc' = [foldAcc EXCEPT ![f] = ctx]
           /\ callLog' = [callLog EXCEPT ![f] =
                  Append(@, [hook |-> fn, in |-> ClosureCtx(foldAcc, f),
                             out |-> fnCtx, acc |-> ctx])]
           /\ kept' = HookKeeps(fn.kind, ClosureCtx(foldAcc, f))
    /\ foldI' = [foldI EXCEPT ![f] = @ + 1]
    /\ UNCHANGED <<abortVars, traceVars, callVars, startTime, hooks, mutex, regArgs, regPc, regI, regTmp,
                   foldPc, foldHooks, foldIn, addLog, regsDoneAtBase>>

FoldUnlock(f, ch) ==
    /\ foldPc[f] = "locked"
    /\ foldI[f] > Len(foldHooks[f])
    /\ mutex' = Unlock(mutex, ch)
    /\ foldPc' = [foldPc EXCEPT ![f] = "done"]
    /\ UNCHANGED <<abortVars, traceVars, callVars, kept, startTime, hooks, regArgs, regPc, regI, regTmp, foldHooks,
                   foldI, foldIn, foldAcc, callLog, addLog, regsDoneAtBase>>

baseContext ==
    \/ /\ FoldLock(0, "base",
                    WithValue(Background, startupContextKey, Int64(startTime)))
       /\ regsDoneAtBase' =
              (\A r \in Registrars : RegistryOf(r) = "base" => regPc[r] = "done")
       /\ UNCHANGED <<abortVars, traceVars, callVars, kept, startTime, hooks, regArgs, regPc, regI, regTmp, callLog,
                      addLog>>
    \/ FoldStep(0)
    \/ FoldUnlock(0, "base")

connContext(c) ==
    \/ /\ foldPc[0] = "done"
       /\ FoldLock(c, "conn", ServerContext(foldAcc[0]))
       /\ UNCHANGED <<abortVars, traceVars, callVars, kept, startTime, hooks, regArgs, regPc, regI, regTmp, callLog,
                      addLog, regsDoneAtBase>>
    \/ FoldStep(c)
    \/ FoldUnlock(c, "conn")

Next ==
    \/ \E r \in Registrars : AddBaseHooks(r)
    \/ \E r \in Registrars : AddConnHooks(r)
    \/ baseContext
    \/ \E c \in Conns : connContext(c)

Spec == Init /\ [][Next]_vars

-----------------------------------------------------------------------------
(* The folds alone: every registration has returned before the listener    *)
(* starts, b1 having registered the base hooks and c1 the connection hooks *)

SeqsUpTo(S, n) == UNION {SeqsOfLen(S, m) : m \in 0..n}

Registered(r, kinds) ==
    [i \in 1..Len(kinds) |-> [reg |-> r, idx |-> i, kind |-> kinds[i]]]

InitFold ==
    /\ startTime \in StartTimes
    /\ \E a \in SeqsUpTo(HookKinds, MaxHooks),
          c \in SeqsUpTo({"tagA", "nil"}, MaxHooks) :
            /\ regArgs = [r \in Registrars |->
                             IF r = "b1" THEN a ELSE IF r = "c1" THEN c ELSE <<>>]
            /\ hooks = [ch \in Registries |->
                           IF ch = "base" THEN Registered("b1", a)
                                          ELSE Registered("c1", c)]
    /\ addLog = hooks
    /\ mutex = [ch \in Registries |-> FALSE]
    /\ regPc = [r \in Registrars |-> "done"]
    /\ regI = [r \in Registrars |-> Len(regArgs[r]) + 1]
    /\ regTmp = [r \in Registrars |-> <<>>]
    /\ foldPc = [f \in Folds |-> "idle"]
    /\ foldHooks = [f \in Folds |-> <<>>]
    /\ foldI = [f \in Folds |-> 1]
    /\ foldIn = [f \in Folds |-> NilCtx]
    /\ foldAcc = [f \in Folds |-> NilCtx]
    /\ callLog = [f \in Folds |-> <<>>]
    /\ regsDoneAtBase = FALSE
    /\ kept = NilCtx
    /\ NoHandlers
    /\ NoCallers

NextFold ==
    \/ baseContext
    \/ \E c \in Conns : connContext(c)

SpecFold == InitFold /\ [][NextFold]_vars

-----------------------------------------------------------------------------
(* Properties of the folds *)

StampedRoot == WithValue(Background, startupContextKey, Int64(startTime))

Rejected(e) == ~isValidContext(e.out, <<startTime>>)

\* C1: in the base fold and in every connection fold, a hook whose result
\* fails validation against the start time leaves the accumulator as it was
\* before the hook ran, the next hook is given that same accumulator, and a
\* finished fold has called every hook of the list after it.
C1_RejectedHookKeepsAccumulator ==
    \A f \in Folds : \A i \in DOMAIN callLog[f] :
        Rejected(callLog[f][i]) =>
            /\ callLog[f][i].acc = callLog[f][i].in
            /\ i < Len(callLog[f]) => callLog[f][i + 1].in = callLog[f][i].in
            /\ foldPc[f] = "locked" => foldAcc[f] = callLog[f][Len(callLog[f])].acc
            /\ foldPc[f] = "done" =>
                  /\ Len(callLog[f]) = Len(foldHooks[f])
                  /\ \A j \in i..Len(foldHooks[f]) :
                        callLog[f][j].hook = foldHooks[f][j]

\* a token-less or wrongly stamped result was rejected in a finished base
\* fold, and a nil result in a finished connection fold, and each fold went on
\* to call a later hook and adopted its result
RejectedThenLater(f, kind) ==
    /\ foldPc[f] = "done"
    /\ \E i \in DOMAIN callLog[f] :
          /\ callLog[f][i].hook.kind = kind
          /\ Rejected(callLog[f][i])
          /\ \E j \in (i + 1)..Len(callLog[f]) :
                /\ ~Rejected(callLog[f][j])
                /\ foldAcc[f] # foldIn[f]

C1_Witness ==
    /\ \E kind \in {"fresh", "foreign"} : RejectedThenLater(0, kind)
    /\ \E c \in Conns : RejectedThenLater(c, "nil")

RECURSIVE ApplyAll(_, _)
\* hn(...h2(h1(ctx))...) for the hook list hs = <<h1, ..., hn>>
ApplyAll(hs, ctx) ==
    IF hs = <<>> THEN ctx
    ELSE ApplyAll(Tail(hs), HookApply(Head(hs).kind, ctx))

AllValid(f) == \A i \in DOMAIN callLog[f] : ~Rejected(callLog[f][i])

\* C2: a finished fold whose hooks all returned valid contexts returns
\* hn(...h2(h1(initial))...) for the list <<h1, ..., hn>> in registration
\* order: it called each hook of the list once, in that order, each on the
\* result of the one before; initial is the freshly stamped root for the base
\* fold and the context the server handed in for a connection fold.
C2_FoldIsComposition ==
    \A f \in Folds :
        (foldPc[f] = "done" /\ AllValid(f)) =>
            /\ foldHooks[f] = addLog[FoldRegistry(f)]
            /\ foldAcc[f] = ApplyAll(foldHooks[f], foldIn[f])
            /\ foldIn[f] = IF f = 0 THEN StampedRoot ELSE ServerContext(foldAcc[0])
            /\ Len(callLog[f]) = Len(foldHooks[f])
            /\ \A i \in DOMAIN callLog[f] :
                  /\ callLog[f][i].hook = foldHooks[f][i]
                  /\ callLog[f][i].in =
                        IF i = 1 THEN foldIn[f] ELSE callLog[f][i - 1].out

C2_Witness ==
    /\ foldPc[0] = "done" /\ AllValid(0)
    /\ Len(callLog[0]) = 2
    /\ callLog[0][1].hook.kind = "tagA"
    /\ callLog[0][2].hook.kind = "tagB"
    /\ \E c \in Conns :
          /\ foldPc[c] = "done" /\ AllValid(c)
          /\ Len(callLog[c]) >= 2

-----------------------------------------------------------------------------
(* Properties of the registries *)

BaseRegistrars == {r \in Registrars : RegistryOf(r) = "base"}

CalledHooks(f) == [i \in DOMAIN callLog[f] |-> callLog[f][i].hook]

\* C3: when every AddBaseHooks call had returned before the base context
\* was constructed, that construction called the hooks in the order in which
\* they were appended, and each hook passed to a call exactly once.
C3_ConcurrentRegistrationAllSeen ==
    (foldPc[0] = "done" /\ regsDoneAtBase) =>
        /\ CalledHooks(0) = addLog["base"]
        /\ \A r \in BaseRegistrars : \A i \in DOMAIN regArgs[r] :
              Cardinality({j \in DOMAIN callLog[0] :
                              callLog[0][j].hook = HookOf(r, i)}) = 1
        /\ \A j \in DOMAIN callLog[0] :
              /\ callLog[0][j].hook.reg \in BaseRegistrars
              /\ callLog[0][j].hook.idx \in DOMAIN regArgs[callLog[0][j].hook.reg]

\* the two callers' appends interleaved: b2's hook went in between b1's
C3_Witness ==
    /\ foldPc[0] = "done" /\ regsDoneAtBase
    /\ Len(callLog[0]) = MaxArgs + 1
    /\ callLog[0][1].hook.reg = "b1"
    /\ callLog[0][2].hook.reg = "b2"
    /\ callLog[0][3].hook.reg = "b1"

\* who is between Lock and Unlock of a registry's mutex
AddsIn(ch) ==
    {r \in Registrars : RegistryOf(r) = ch /\ regPc[r] \in {"read", "write", "unlock"}}
FoldsIn(ch) == {f \in Folds : FoldRegistry(f) = ch /\ foldPc[f] \notin {"idle", "done"}}

\* C10: a registry's mutex is locked exactly while one Add call is at its
\* append or one fold is anywhere between its start and its return; never are
\* an Add and a fold on the same registry, or two folds over the connection
\* hooks, inside together.  The registries have separate mutexes: whoever
\* waits to lock one can go on as soon as nobody is inside that one, whatever
\* the state of the other.
C10_LockScope ==
    /\ \A ch \in Registries :
          /\ Cardinality(AddsIn(ch)) + Cardinality(FoldsIn(ch)) <= 1
          /\ mutex[ch] <=> (AddsIn(ch) \cup FoldsIn(ch) # {})
    /\ \A r \in Registrars :
          (regPc[r] = "lock" /\ AddsIn(RegistryOf(r)) \cup FoldsIn(RegistryOf(r)) = {})
              => ENABLED AddLock(r, RegistryOf(r))
    /\ (foldPc[0] = "idle" /\ AddsIn("base") \cup FoldsIn("base") = {})
          => ENABLED baseContext
    /\ \A c \in Conns :
          (foldPc[0] = "done" /\ foldPc[c] = "idle"
              /\ AddsIn("conn") \cup FoldsIn("conn") = {})
              => ENABLED connContext(c)

\* both mutexes are held at once, by an Add on the base registry and by a
\* connection fold, while another connection and an AddConnHooks call wait
C10_Witness ==
    /\ "b1" \in AddsIn("base")
    /\ 1 \in FoldsIn("conn")
    /\ foldPc[2] = "idle"
    /\ regPc["c1"] = "lock"
    /\ ~ENABLED connContext(2)
    /\ ~ENABLED AddConnHooks("c1")

RECURSIVE FoldResult(_, _, _)
\* what a fold over the list hs returns when started from ctx: each hook is
\* given the accumulator, and its result replaces the accumulator when it is
\* valid for the start time
FoldResult(hs, ctx, start) ==
    IF hs = <<>> THEN ctx
    ELSE LET out == HookApply(Head(hs).kind, ctx)
         IN  FoldResult(Tail(hs),
                        IF isValidContext(out, <<start>>) THEN out ELSE ctx,
                        start)

\* C11: the context a connection fold returns is a function of the context
\* handed in for that connection and of the connection hook list as it was
\* when the fold took the lock; a step of another connection's fold changes
\* nothing of this connection's fold; and once the base context is built no
\* step (of any connection fold or registration) changes it, every
\* connection being handed a context derived from that same base context.
C11_ConnFoldsIndependent ==
    [][/\ \A c \in Conns :
            /\ (foldPc[c] = "idle" /\ foldPc'[c] = "locked") =>
                   /\ foldHooks'[c] = hooks["conn"]
                   /\ foldIn'[c] = ServerContext(foldAcc[0])
            /\ foldPc'[c] = "done" =>
                   foldAcc'[c] = FoldResult(foldHooks'[c], foldIn'[c], startTime)
            /\ \A d \in Conns \ {c} :
                   connContext(d) =>
                      UNCHANGED <<foldPc[c], foldHooks[c], foldI[c], foldIn[c],
                                  foldAcc[c], callLog[c]>>
       /\ foldPc[0] = "done" =>
            /\ foldAcc'[0] = foldAcc[0]
            /\ foldPc'[0] = "done"
            /\ foldAcc[0] = FoldResult(foldHooks[0], foldIn[0], startTime)
      ]_vars

\* one connection fold ran before AddConnHooks appended its hook and the
\* other after it, so that the two returned different contexts from the same
\* base context
C11_Witness ==
    /\ foldPc[1] = "done" /\ foldPc[2] = "done"
    /\ foldIn[1] = foldIn[2]
    /\ foldHooks[1] # foldHooks[2]
    /\ foldAcc[1] # foldAcc[2]
    /\ foldAcc[1] = FoldResult(foldHooks[1], ServerContext(foldAcc[0]), startTime)
    /\ foldAcc[2] = FoldResult(foldHooks[2], ServerContext(foldAcc[0]), startTime)

-----------------------------------------------------------------------------
(* The abort signal: isAborted, Abort, AbortWithStatus,                    *)
(* AbortWithStatusReason, AbortWithError, Redirect                         *)

abortDefaultReason == "Server encounter an error"
StatusInternalServerError == 500

\* The arguments the handlers pass
Statuses == {0, 404}
Reasons == {"gone"}
Paths == {"/x"}
NilError == [isNil |-> TRUE, msg |-> ""]
Errors == {NilError, [isNil |-> FALSE, msg |-> "boom"]}

\* the zero value of abortValueType
NoSignal == [status |-> 0, reason |-> "", redirect |-> FALSE]

\* val, ok := ctx.Value(abortContextKey).(*abortValueType): the address, 0
\* when the assertion fails or the pointer is nil
AbortAddr(ctx) ==
    LET v == Value(ctx, abortContextKey)
    IN  IF v.t = "*abortValueType" THEN v.n ELSE 0

\* the abortValueType a reader of ctx finds, NoSignal when there is none
AbortValue(ctx) ==
    IF AbortAddr(ctx) = 0 THEN NoSignal ELSE abortHeap[AbortAddr(ctx)]

isAborted(ctx) ==
    IF AbortAddr(ctx) = 0 THEN FALSE
    ELSE abortHeap[AbortAddr(ctx)].status # 0

\* an address that is the one ctx already reads its signal from, if any
ReusedAddr(heap, ctx) ==
    IF AbortAddr(ctx) # 0 THEN AbortAddr(ctx) ELSE Len(heap) + 1

\* val := &abortValueType{...}: the address of a new variable
NewAddr(heap, ctx) == Len(heap) + 1

Store(heap, a, val) ==
    IF a = Len(heap) + 1 THEN Append(heap, val) ELSE [heap EXCEPT ![a] = val]

\* return context.WithValue(ctx, abortContextKey, val), for the context c
\* some handler holds; call is recorded in the history
Attach(c, val, call) ==
    /\ Len(ctxs) <= MaxAborts
    /\ LET a == NewAddr(abortHeap, ctxs[c])
       IN  /\ abortHeap' = Store(abortHeap, a, val)
           /\ ctxs' = Append(ctxs, WithValue(ctxs[c], abortContextKey, Ptr(a)))
    /\ parentOf' = Append(parentOf, c)
    /\ callsOf' = Append(callsOf, Append(callsOf[c], call))
    /\ UNCHANGED <<hookVars, traceVars, callVars>>

Abort(c) ==
    Attach(c, [status |-> StatusInternalServerError,
               reason |-> abortDefaultReason, redirect |-> FALSE],
           [fn |-> "Abort", status |-> StatusInternalServerError,
            text |-> "", nilErr |-> FALSE])

AbortWithStatus(c, status) ==
    Attach(c, [status |-> status, reason |-> abortDefaultReason,
               redirect |-> FALSE],
           [fn |-> "AbortWithStatus", status |-> status,
            text |-> "", nilErr |-> FALSE])

AbortWithStatusReason(c, status, reason) ==
    Attach(c, [status |-> status, reason |-> reason, redirect |-> FALSE],
           [fn |-> "AbortWithStatusReason", status |-> status,
            text |-> reason, nilErr |-> FALSE])

\* an AbortWithError that falls back to the default reason
AbortWithErrorDefault(c, status, err) ==
    LET reason == IF ~err.isNil THEN err.msg ELSE abortDefaultReason
    IN  Attach(c, [status |-> status, reason |-> reason, redirect |-> FALSE],
               [fn |-> "AbortWithError", status |-> status,
                text |-> err.msg, nilErr |-> err.isNil])

AbortWithError(c, status, err) ==
    LET reason == IF ~err.isNil THEN err.msg ELSE ""
    IN  Attach(c, [status |-> status, reason |-> reason, redirect |-> FALSE],
               [fn |-> "AbortWithError", status |-> status,
                text |-> err.msg, nilErr |-> err.isNil])

Redirect(c, status, path) ==
    Attach(c, [status |-> status, reason |-> path, redirect |-> TRUE],
           [fn |-> "Redirect", status |-> status,
            text |-> path, nilErr |-> FALSE])

\* no listener runs and nothing is registered
NoListener ==
    /\ startTime = Max(StartTimes)
    /\ hooks = [ch \in Registries |-> <<>>]
    /\ mutex = [ch \in Registries |-> FALSE]
    /\ regArgs = [r \in Registrars |-> <<>>]
    /\ regPc = [r \in Registrars |-> "done"]
    /\ regI = [r \in Registrars |-> 1]
    /\ regTmp = [r \in Registrars |-> <<>>]
    /\ foldPc = [f \in Folds |-> "idle"]
    /\ foldHooks = [f \in Folds |-> <<>>]
    /\ foldI = [f \in Folds |-> 1]
    /\ foldIn = [f \in Folds |-> NilCtx]
    /\ foldAcc = [f \in Folds |-> NilCtx]
    /\ callLog = [f \in Folds |-> <<>>]
    /\ addLog = [ch \in Registries |-> <<>>]
    /\ regsDoneAtBase = FALSE
    /\ kept = NilCtx

InitAbort == NoListener /\ NoHandlers /\ NoCallers

NextAbort ==
    \/ \E c \in DOMAIN ctxs : Abort(c)
    \/ \E c \in DOMAIN ctxs, status \in Statuses : AbortWithStatus(c, status)
    \/ \E c \in DOMAIN ctxs, status \in Statuses, reason \in Reasons :
          AbortWithStatusReason(c, status, reason)
    \/ \E c \in DOMAIN ctxs, status \in Statuses, err \in Errors :
          AbortWithError(c, status, err)
    \/ \E c \in DOMAIN ctxs, status \in Statuses, path \in Paths :
          Redirect(c, status, path)

SpecAbort == InitAbort /\ [][NextAbort]_vars

-----------------------------------------------------------------------------
(* Properties of the abort signal *)

LastCall(h) == callsOf[h][Len(callsOf[h])]

\* C4: a context is aborted iff its lineage holds an Abort*/Redirect call
\* and the last of them carried a non-zero status: not when the lineage holds
\* no call, and not when the last call carried status 0 after an earlier call
\* with a non-zero status.
C4_LastCallDecidesAborted ==
    \A h \in DOMAIN ctxs :
        isAborted(ctxs[h]) <=> (callsOf[h] # <<>> /\ LastCall(h).status # 0)

C4_Witness ==
    /\ \E h \in DOMAIN ctxs :
          /\ Len(callsOf[h]) = 2
          /\ callsOf[h][1].status # 0 /\ callsOf[h][2].status = 0
          /\ ~isAborted(ctxs[h])
          /\ isAborted(ctxs[parentOf[h]])
    /\ callsOf[1] = <<>> /\ ~isAborted(ctxs[1])

IsPrefix(s, t) == Len(s) <= Len(t) /\ SubSeq(t, 1, Len(s)) = s

\* C5: a constructor call leaves every context that existed before it as it
\* was, with the same signal and the same isAborted, and returns a new context
\* one attachment below its argument, which reads its signal from an
\* abortValueType that no earlier context reads: a signal attached on one
\* branch is not the one a sibling branch or the common ancestor reads.
C5_ConstructorsArePure ==
    [][ /\ \A h \in DOMAIN ctxs :
              /\ ctxs'[h] = ctxs[h]
              /\ AbortValue(ctxs[h])' = AbortValue(ctxs[h])
              /\ isAborted(ctxs[h])' = isAborted(ctxs[h])
        /\ Len(ctxs') = Len(ctxs) + 1
        /\ LET new == Len(ctxs')
           IN  /\ parentOf'[new] \in DOMAIN ctxs
               /\ IsPrefix(ctxs[parentOf'[new]].vals, ctxs'[new].vals)
               /\ Len(ctxs'[new].vals) = Len(ctxs[parentOf'[new]].vals) + 1
               /\ \A h \in DOMAIN ctxs :
                     AbortAddr(ctxs'[new]) # AbortAddr(ctxs'[h])
      ]_vars

\* an aborted context with two children made from it: one reads status 0,
\* the other a redirect, and the parent still reads its own 404
C5_Witness ==
    \E p, a, b \in DOMAIN ctxs :
        /\ a # b /\ parentOf[a] = p /\ parentOf[b] = p
        /\ AbortValue(ctxs[p]).status = 404 /\ isAborted(ctxs[p])
        /\ ~isAborted(ctxs[a])
        /\ AbortValue(ctxs[b]).redirect /\ isAborted(ctxs[b])

-----------------------------------------------------------------------------
(* http.go: the flags, doWithClient, Do, DoClient, mergeTrace,             *)
(* InheritTrace, FulfillTrace                                              *)

EnableMetric(ctx) == WithValue(ctx, ctxMetricKey, Bool(TRUE))
DisableMetric(ctx) == WithValue(ctx, ctxMetricKey, Bool(FALSE))
EnableTrace(ctx) == WithValue(ctx, ctxTraceKey, Bool(TRUE))
DisableTrace(ctx) == WithValue(ctx, ctxTraceKey, Bool(FALSE))
EnableLog(ctx) == WithValue(ctx, ctxLogKey, Bool(TRUE))
DisableLog(ctx) == WithValue(ctx, ctxLogKey, Bool(FALSE))

hasEnabledTrace(ctx) ==
    LET val == Value(ctx, ctxTraceKey)
    IN  IF val = NilValue THEN FALSE
        ELSE IF val.t # "bool" THEN FALSE
        ELSE val.n = 1

\* The tracing collaborator (package solu).  A trace id and a span id are
\* attachments of the context, "" when unset.
soluTraceKey == "solu.traceKey{}"
soluSpanKey == "solu.spanKey{}"
TraceID(ctx) ==
    LET v == Value(ctx, soluTraceKey) IN IF v.t = "string" THEN v.s ELSE ""
SpanID(ctx) ==
    LET v == Value(ctx, soluSpanKey) IN IF v.t = "string" THEN v.s ELSE ""
TraceWith(ctx, tid) == WithValue(ctx, soluTraceKey, Str(tid))
SpanWith(ctx, sid) == WithValue(ctx, soluSpanKey, Str(sid))

\* A header value is the sequence of its "-"-separated fields, <<>> for the
\* empty string: a traceparent is version-traceid-spanid-flags.
ParseTraceparent(header) ==
    IF Len(header) = 4 /\ header[1] = "00" /\ header[2] # "" /\ header[3] # ""
    THEN [tid |-> header[2], sid |-> header[3], err |-> FALSE]
    ELSE [tid |-> "", sid |-> "", err |-> TRUE]
TraceparentValue(ctx) ==
    <<"00", IF TraceID(ctx) = "" THEN "new" ELSE TraceID(ctx),
            IF SpanID(ctx) = "" THEN "new" ELSE SpanID(ctx), "01">>

\* A request or a response is nil, or holds a Header map, itself nil or not,
\* with the values stored under the canonical key Traceparent.
\* Header.Get(TraceparentHeader): the first value, "" when there is none
HeaderGet(m) == IF m.hdrNil \/ m.tp = <<>> THEN <<>> ELSE m.tp[1]

Message(hdrNil, tp) == [isNil |-> FALSE, hdrNil |-> hdrNil, tp |-> tp]
Requests ==
    { NoRequest,
      Message(TRUE, <<>>),
      Message(FALSE, <<>>),
      Message(FALSE, << <<>> >>),
      Message(FALSE, << <<"00", "T0", "S0", "01">> >>) }
Responses ==
    { NoRequest,
      Message(TRUE, <<>>),
      Message(FALSE, <<>>),
      Message(FALSE, << <<"garbage">> >>),
      Message(FALSE, << <<"00", "", "S", "01">> >>),
      Message(FALSE, << <<"00", "B", "S", "01">> >>) }
\* what client.Do returns: a response, or a transport error
Replies == { [res |-> "200 OK", err |-> ""], [res |-> "", err |-> "dial tcp"] }

\* a wrapper that adds the trace header before it looks at the client
doWithClientLateCheck(ctx, req, clientNil, reply) ==
    IF req.isNil
    THEN [res |-> "", err |-> "invalid request", req |-> req,
          called |-> FALSE, panicked |-> FALSE]
    ELSE LET inject == hasEnabledTrace(ctx) /\ HeaderGet(req) = <<>> /\ ~req.hdrNil
             sent == IF inject
                     THEN [req EXCEPT !.tp = << TraceparentValue(ctx) >>]
                     ELSE req
         IN  IF clientNil
             THEN [res |-> "", err |-> "invalid client", req |-> sent,
                   called |-> FALSE, panicked |-> FALSE]
             ELSE [res |-> reply.res, err |-> reply.err, req |-> sent,
                   called |-> TRUE, panicked |-> FALSE]

\* The results res and err ("" for nil), the request as the call leaves it,
\* whether client.Do was called, and whether the call panicked:
\* req.Header.Set on a nil Header map is an assignment to an entry of a nil map.
doWithClient(ctx, req, clientNil, reply) ==
    IF req.isNil
    THEN [res |-> "", err |-> "invalid request", req |-> req,
          called |-> FALSE, panicked |-> FALSE]
    ELSE IF clientNil
    THEN [res |-> "", err |-> "invalid client", req |-> req,
          called |-> FALSE, panicked |-> FALSE]
    ELSE IF hasEnabledTrace(ctx) /\ HeaderGet(req) = <<>>
    THEN IF req.hdrNil
         THEN [res |-> "", err |-> "", req |-> req,
               called |-> FALSE, panicked |-> TRUE]
         ELSE [res |-> reply.res, err |-> reply.err,
               req |-> [req EXCEPT !.tp = << TraceparentValue(ctx) >>],
               called |-> TRUE, panicked |-> FALSE]
    ELSE [res |-> reply.res, err |-> reply.err, req |-> req,
          called |-> TRUE, panicked |-> FALSE]

\* http.DefaultClient is not nil
Do(ctx, req, reply) == doWithClient(ctx, req, FALSE, reply)

DoClient(ctx, req, clientNil, reply) == doWithClient(ctx, req, clientNil, reply)

\* a merge that takes the header's ids whatever the context holds
mergeTraceOverwrite(ctx, res) ==
    IF res.isNil THEN ctx
    ELSE LET header == HeaderGet(res)
         IN  IF header = <<>> THEN ctx
             ELSE LET p == ParseTraceparent(header)
                  IN  IF p.err THEN ctx
                      ELSE SpanWith(TraceWith(ctx, p.tid), p.sid)

\* a merge that starts over from context.Background() when it finds no ids
mergeTraceFresh(ctx, res) ==
    IF res.isNil THEN Background
    ELSE LET header == HeaderGet(res)
         IN  IF header = <<>> THEN Background
             ELSE LET p == ParseTraceparent(header)
                  IN  IF p.err THEN Background
                      ELSE LET c1 == IF TraceID(ctx) = ""
                                     THEN TraceWith(ctx, p.tid) ELSE ctx
                           IN  IF SpanID(c1) = "" THEN SpanWith(c1, p.sid) ELSE c1

mergeTrace(ctx, res) ==
    IF res.isNil THEN ctx
    ELSE LET header == HeaderGet(res)
         IN  IF header = <<>> THEN ctx
             ELSE LET p == ParseTraceparent(header)
                  IN  IF p.err THEN ctx
                      ELSE LET c1 == IF TraceID(ctx) = ""
                                     THEN TraceWith(ctx, p.tid) ELSE ctx
                           IN  IF SpanID(c1) = "" THEN SpanWith(c1, p.sid) ELSE c1

InheritTrace(res) == mergeTrace(Background, res)

FulfillTrace(ctx, res) == mergeTrace(ctx, res)

\* The functions a caller derives its context with
DeriveFns ==
    {"EnableMetric", "DisableMetric", "EnableTrace", "DisableTrace",
     "EnableLog", "DisableLog", "TraceWith", "SpanWith"}

Derived(fn, ctx) ==
    CASE fn = "EnableMetric" -> EnableMetric(ctx)
      [] fn = "DisableMetric" -> DisableMetric(ctx)
      [] fn = "EnableTrace" -> EnableTrace(ctx)
      [] fn = "DisableTrace" -> DisableTrace(ctx)
      [] fn = "EnableLog" -> EnableLog(ctx)
      [] fn = "DisableLog" -> DisableLog(ctx)
      [] fn = "TraceWith" -> TraceWith(ctx, "A")
      [] fn = "SpanWith" -> SpanWith(ctx, "P")

\* ctx = fn(ctx)
Derive(fn) ==
    /\ Len(tcalls) < MaxLineage
    /\ tctx' = Derived(fn, tctx)
    /\ tcalls' = Append(tcalls, fn)
    /\ last' = NoCall
    /\ UNCHANGED <<hookVars, callVars, abortVars>>

\* res, err := Do(ctx, req)
CallDo(req, reply) ==
    /\ last' = [NoCall EXCEPT !.fn = "Do", !.ctx = tctx, !.calls = tcalls,
                              !.req = req, !.out = Do(tctx, req, reply)]
    /\ UNCHANGED <<hookVars, callVars, abortVars, tctx, tcalls>>

\* res, err := DoClient(ctx, req, client)
CallDoClient(req, clientNil, reply) ==
    /\ last' = [NoCall EXCEPT !.fn = "DoClient", !.ctx = tctx, !.calls = tcalls,
                              !.req = req, !.clientNil = clientNil,
                              !.out = DoClient(tctx, req, clientNil, reply)]
    /\ UNCHANGED <<hookVars, callVars, abortVars, tctx, tcalls>>

\* ctx = FulfillTrace(ctx, res)
CallFulfillTrace(res) ==
    /\ Len(tcalls) <= MaxLineage
    /\ tctx' = FulfillTrace(tctx, res)
    /\ tcalls' = Append(tcalls, "FulfillTrace")
    /\ last' = [NoCall EXCEPT !.fn = "FulfillTrace", !.ctx = tctx,
                              !.calls = tcalls, !.res = res,
                              !.ctxOut = FulfillTrace(tctx, res)]
    /\ UNCHANGED <<hookVars, callVars, abortVars>>

\* ctx = InheritTrace(res)
CallInheritTrace(res) ==
    /\ tctx' = InheritTrace(res)
    /\ tcalls' = <<"InheritTrace">>
    /\ last' = [NoCall EXCEPT !.fn = "InheritTrace", !.ctx = Background,
                              !.res = res, !.ctxOut = InheritTrace(res)]
    /\ UNCHANGED <<hookVars, callVars, abortVars>>

InitTrace == NoListener /\ NoHandlers /\ NoCallers

NextTrace ==
    \/ \E fn \in DeriveFns : Derive(fn)
    \/ \E req \in Requests, reply \in Replies : CallDo(req, reply)
    \/ \E req \in Requests, clientNil \in BOOLEAN, reply \in Replies :
          CallDoClient(req, clientNil, reply)
    \/ \E res \in Responses : CallFulfillTrace(res)
    \/ \E res \in Responses : CallInheritTrace(res)

SpecTrace == InitTrace /\ [][NextTrace]_vars

-----------------------------------------------------------------------------
(* Properties of the trace merge and of the call wrapper *)

IsMerge == last.fn \in {"FulfillTrace", "InheritTrace"}

\* the response of the merge just made carries a traceparent that parses
Parseable ==
    /\ ~last.res.isNil
    /\ HeaderGet(last.res) # <<>>
    /\ ~ParseTraceparent(HeaderGet(last.res)).err

\* C6: after a merge of a response whose traceparent parses to trace id B and
\* span id S, the context's trace id is B if it had none and the one it had
\* otherwise, and, independently, its span id is S if it had none and the one
\* it had otherwise.
C6_MergeNeverOverwrites ==
    (IsMerge /\ Parseable) =>
        LET p == ParseTraceparent(HeaderGet(last.res))
        IN  /\ TraceID(last.ctxOut) =
                  IF TraceID(last.ctx) = "" THEN p.tid ELSE TraceID(last.ctx)
            /\ SpanID(last.ctxOut) =
                  IF SpanID(last.ctx) = "" THEN p.sid ELSE SpanID(last.ctx)

\* a context with trace id A and no span id was merged with B, S: it kept A
\* and took S
C6_Witness ==
    /\ last.fn = "FulfillTrace" /\ Parseable
    /\ TraceID(last.ctx) = "A" /\ SpanID(last.ctx) = ""
    /\ ParseTraceparent(HeaderGet(last.res)).tid = "B"
    /\ TraceID(last.ctxOut) = "A" /\ SpanID(last.ctxOut) = "S"

\* C7: a merge of a nil response, of a response without traceparent or of
\* one whose traceparent does not parse returns the context it was given;
\* InheritTrace then returns context.Background(), with no trace id and no
\* span id.
C7_NothingToMerge ==
    (IsMerge /\ ~Parseable) =>
        /\ last.ctxOut = last.ctx
        /\ last.fn = "InheritTrace" =>
              /\ last.ctxOut = Background
              /\ TraceID(last.ctxOut) = "" /\ SpanID(last.ctxOut) = ""

\* a context with a trace id and a flag came back as it was from a response
\* whose traceparent does not parse
C7_Witness ==
    /\ last.fn = "FulfillTrace"
    /\ ~last.res.isNil /\ HeaderGet(last.res) # <<>> /\ ~Parseable
    /\ TraceID(last.ctx) = "A" /\ Len(last.ctx.vals) = 2
    /\ last.ctxOut = last.ctx

IsDo == last.fn \in {"Do", "DoClient"}

\* C8: Do and DoClient with a nil request, and DoClient with a nil client,
\* return an error and no response, make no HTTP call, do not panic and leave
\* the request as it was, whether or not tracing is enabled on the context.
C8_NilArgumentsAreErrors ==
    (IsDo /\ (last.req.isNil \/ last.clientNil)) =>
        /\ last.out.err # ""
        /\ last.out.res = ""
        /\ ~last.out.called
        /\ ~last.out.panicked
        /\ last.out.req = last.req

\* DoClient with a nil client, tracing enabled and a request without
\* traceparent: the call that would have written the header returned an error
C8_Witness ==
    /\ last.fn = "DoClient" /\ last.clientNil /\ ~last.req.isNil
    /\ ~last.req.hdrNil /\ HeaderGet(last.req) = <<>>
    /\ hasEnabledTrace(last.ctx)
    /\ last.out.err = "invalid client"

\* tracing is enabled on a context as its lineage says: the nearest
\* EnableTrace or DisableTrace call that derived it is EnableTrace
RECURSIVE TraceEnabledBy(_)
TraceEnabledBy(calls) ==
    IF calls = <<>> THEN FALSE
    ELSE LET fn == calls[Len(calls)]
         IN  IF fn = "EnableTrace" THEN TRUE
             ELSE IF fn = "DisableTrace" THEN FALSE
             ELSE TraceEnabledBy(SubSeq(calls, 1, Len(calls) - 1))

\* the request carried a traceparent header when the call was made
CarriesTraceparent(req) == ~req.hdrNil /\ req.tp # <<>>

\* C9: for a request and a client that are not nil, the call writes the
\* traceparent header iff tracing is enabled on the context and the request
\* carried none; a header the request carried is left as it was, and with
\* tracing not enabled (no EnableTrace in the lineage, or DisableTrace
\* nearest) the request is left as it was.
C9_HeaderWrittenIffEnabled ==
    (IsDo /\ ~last.req.isNil /\ ~last.clientNil) =>
        LET enabled == TraceEnabledBy(last.calls)
            written == CarriesTraceparent(last.out.req) /\ last.out.req # last.req
        IN  /\ written <=> (enabled /\ ~CarriesTraceparent(last.req))
            /\ CarriesTraceparent(last.req) => last.out.req = last.req
            /\ ~enabled => last.out.req = last.req

-----------------------------------------------------------------------------
(* Further properties of the registries and of the folds *)

\* the positions of the hook that was argument i of registrar r's call
PositionsOf(r, i, list) == {j \in DOMAIN list : list[j] = HookOf(r, i)}

\* C12: each hook list only grows at its end: a step leaves every hook that
\* is in a list at its position, the list is always the hooks in the order
\* in which they were appended, the hooks of one AddBaseHooks/AddConnHooks
\* call stand in the list in the order of the call's arguments, and a fold
\* iterates, in order, a list that stays a prefix of the registry's list
\* from then on.
C12_AppendOnly ==
    [][/\ \A ch \in Registries :
            /\ IsPrefix(hooks[ch], hooks'[ch])
            /\ hooks'[ch] = addLog'[ch]
       /\ \A r \in Registrars : \A i, j \in DOMAIN regArgs[r] :
            LET list == hooks'[RegistryOf(r)]
            IN  /\ Cardinality(PositionsOf(r, i, list)) <= 1
                /\ (i < j /\ PositionsOf(r, j, list) # {}) =>
                       /\ PositionsOf(r, i, list) # {}
                       /\ \A a \in PositionsOf(r, i, list),
                             b \in PositionsOf(r, j, list) : a < b
       /\ \A f \in Folds :
            /\ IsPrefix(foldHooks'[f], hooks'[FoldRegistry(f)])
            /\ IsPrefix(CalledHooks(f)', foldHooks'[f])
            /\ foldPc'[f] = "done" => CalledHooks(f)' = foldHooks'[f]
      ]_vars

\* the base fold iterated a list of one hook, and the list then grew to
\* three hooks, b2's hook standing between the two of b1's call
C12_Witness ==
    /\ foldPc[0] = "done"
    /\ Len(foldHooks[0]) = 1
    /\ Len(hooks["base"]) = MaxArgs + 1
    /\ hooks["base"][1] = foldHooks[0][1]
    /\ hooks["base"][1].reg = "b1"
    /\ hooks["base"][2].reg = "b2"
    /\ hooks["base"][3].reg = "b1"

\* ctx is root or was derived from it by WithValue calls
Descends(ctx, root) == ~ctx.isNil /\ IsPrefix(root.vals, ctx.vals)

\* the hook calls of fold f whose result became the accumulator
Adopted(f) == {i \in DOMAIN callLog[f] : callLog[f][i].acc = callLog[f][i].out}

\* C13: every hook result that a fold adopted as its accumulator descends
\* from the root this listener stamped; a result that does not descend from
\* that root is never adopted.
C13_AdoptedDescendsFromRoot ==
    \A f \in Folds : \A i \in Adopted(f) :
        Descends(callLog[f][i].out, StampedRoot)

-----------------------------------------------------------------------------
(* Further properties of the abort signal *)

\* the signal a constructor call is documented to attach
SignalOf(call) ==
    CASE call.fn = "Abort" ->
            [status |-> 500, reason |-> abortDefaultReason, redirect |-> FALSE]
      [] call.fn = "AbortWithStatus" ->
            [status |-> call.status, reason |-> abortDefaultReason,
             redirect |-> FALSE]
      [] call.fn = "AbortWithStatusReason" ->
            [status |-> call.status, reason |-> call.text, redirect |-> FALSE]
      [] call.fn = "AbortWithError" ->
            [status |-> call.status,
             reason |-> IF call.nilErr THEN "" ELSE call.text,
             redirect |-> FALSE]
      [] call.fn = "Redirect" ->
            [status |-> call.status, reason |-> call.text, redirect |-> TRUE]

\* C14: the context a constructor returned reads exactly the signal of that
\* call: Abort status 500 with the default reason; AbortWithStatus the given
\* status with the default reason; AbortWithStatusReason the given status
\* and reason; AbortWithError the given status with the error's message, or
\* the empty reason when the error is nil; Redirect the given status with
\* the path as reason and the redirect flag set.  The flag is set by no
\* other constructor.
C14_ConstructorsAttachSignal ==
    \A h \in DOMAIN ctxs :
        callsOf[h] # <<>> =>
            /\ AbortValue(ctxs[h]) = SignalOf(LastCall(h))
            /\ AbortValue(ctxs[h]).redirect <=> LastCall(h).fn = "Redirect"

\* AbortWithError was called with a nil error on a context returned by
\* Redirect, and Abort on the context that call returned
C14_Witness ==
    \E h, g \in DOMAIN ctxs :
        /\ parentOf[g] = h
        /\ Len(callsOf[h]) = 2
        /\ callsOf[h][1].fn = "Redirect"
        /\ LastCall(h).fn = "AbortWithError" /\ LastCall(h).nilErr
        /\ AbortValue(ctxs[h]).reason = ""
        /\ LastCall(g).fn = "Abort"
        /\ AbortValue(ctxs[g]) =
              [status |-> 500, reason |-> "Server encounter an error",
               redirect |-> FALSE]

-----------------------------------------------------------------------------
(* http.go: metricLabels *)

\* A *http.Request as metricLabels reads it: Method, Host and URL.Path, the
\* URL field being a pointer that may be nil.
NilRequest ==
    [isNil |-> TRUE, Method |-> "", Host |-> "", urlNil |-> TRUE, Path |-> ""]
LabelRequests ==
    [isNil : {FALSE}, Method : {"GET", "POST"}, Host : {"example.com", ""},
     urlNil : {FALSE}, Path : {"/p", ""}]
      \cup [isNil : {FALSE}, Method : {"GET"}, Host : {"example.com"},
            urlNil : {TRUE}, Path : {""}]

\* A *http.Response: StatusCode and Request, the request it answers
NilResponse == [isNil |-> TRUE, StatusCode |-> 0, Request |-> NilRequest]
LabelResponses ==
    [isNil : {FALSE}, StatusCode : {0, 200, 404},
     Request : {NilRequest} \cup
               {r \in LabelRequests : r.Method = "POST" \/ r.urlNil}]

\* time.Duration values, in nanoseconds
Millisecond == 1000000
Durations ==
    {0, 1, 999999, Millisecond, 1999999, 150 * Millisecond,
     150 * Millisecond + 999999, -1, -1500000}

\* int64 division truncates toward zero
Quo(a, b) == IF a >= 0 THEN a \div b ELSE -((-a) \div b)

\* Duration.Milliseconds
Milliseconds(d) == Quo(d, Millisecond)

DecimalDigits == <<"0", "1", "2", "3", "4", "5", "6", "7", "8", "9">>

RECURSIVE FormatInt(_)
\* strconv.FormatInt(n, 10)
FormatInt(n) ==
    IF n < 0 THEN "-" \o FormatInt(-n)
    ELSE IF n < 10 THEN DecimalDigits[n + 1]
    ELSE FormatInt(n \div 10) \o DecimalDigits[(n % 10) + 1]

\* strconv.Itoa
Itoa(n) == FormatInt(n)

\* What a call returns: a nil slice, a slice of labels, or no return at all
\* when the call panics (req.URL.Path with a nil req.URL)
NilLabels == [panicked |-> FALSE, isNil |-> TRUE, labels |-> <<>>]
Labels(ls) == [panicked |-> FALSE, isNil |-> FALSE, labels |-> ls]
NilDereference == [panicked |-> TRUE, isNil |-> TRUE, labels |-> <<>>]

metricLabels(req, res, dur) ==
    LET req1 == IF req.isNil /\ ~res.isNil THEN res.Request ELSE req
    IN  IF req1.isNil THEN NilLabels
        ELSE LET statusCode == IF ~res.isNil THEN res.StatusCode ELSE 0
             IN  IF req1.urlNil THEN NilDereference
                 ELSE Labels(<<req1.Method, req1.Host, req1.Path,
                               Itoa(statusCode), FormatInt(Milliseconds(dur))>>)

\* labels := metricLabels(req, res, dur)
CallMetricLabels ==
    /\ ~lcall.called
    /\ lcall' = [called |-> TRUE, req |-> lcall.req, res |-> lcall.res,
                 dur |-> lcall.dur,
                 out |-> metricLabels(lcall.req, lcall.res, lcall.dur)]
    /\ UNCHANGED <<hookVars, abortVars, traceVars, vcall>>

InitLabels ==
    /\ NoListener /\ NoHandlers
    /\ tctx = Background /\ tcalls = <<>> /\ last = NoCall
    /\ vcall = NoHelperCall
    /\ lcall \in [called : {FALSE},
                  req : {NilRequest} \cup LabelRequests,
                  res : {NilResponse} \cup LabelResponses,
                  dur : Durations]

NextLabels == CallMetricLabels

SpecLabels == InitLabels /\ [][NextLabels]_vars

\* C15: metricLabels returns nil exactly when the request is nil and the
\* response is nil or has no originating request; in every other case it
\* returns the five labels method, host, path, status code in decimal and
\* duration in whole milliseconds in decimal, of the request, or of the
\* response's originating request when the request is nil; the status is
\* "0" when the response is nil, and the duration is truncated to whole
\* milliseconds.
C15_MetricLabels ==
    lcall.called =>
        LET noRequest ==
                lcall.req.isNil /\ (lcall.res.isNil \/ lcall.res.Request.isNil)
            from == IF lcall.req.isNil THEN lcall.res.Request ELSE lcall.req
            status == IF lcall.res.isNil THEN "0"
                      ELSE FormatInt(lcall.res.StatusCode)
            millis == CHOOSE m \in -200..200 :
                         /\ lcall.dur >= 0 =>
                               m * Millisecond <= lcall.dur
                                  /\ lcall.dur < (m + 1) * Millisecond
                         /\ lcall.dur < 0 =>
                               (m - 1) * Millisecond < lcall.dur
                                  /\ lcall.dur <= m * Millisecond
        IN  /\ ~lcall.out.panicked
            /\ lcall.out.isNil <=> noRequest
            /\ ~noRequest =>
                  lcall.out.labels =
                     <<from.Method, from.Host, from.Path, status,
                       FormatInt(millis)>>

-----------------------------------------------------------------------------
(* unnamed/part_000: isValidContext on its own *)

\* The values a context may hold under startupContextKey: int64 values
\* around zero, values of other types, and the nil interface value
TokenValues ==
    {Int64(-1), Int64(0), Int64(1), Int64(2), GoInt(1), Str("1"), Bool(TRUE),
     NilValue}

\* The contexts isValidContext is called with: nil, contexts without the
\* key, contexts with one value under it (directly or further up the chain)
\* and contexts with two
CheckedContexts ==
    {NilCtx, Background, WithValue(Background, abortContextKey, Int64(1))}
      \cup {WithValue(Background, startupContextKey, v) : v \in TokenValues}
      \cup {WithValue(WithValue(Background, startupContextKey, v),
                      ServerContextKey, Str("srv")) : v \in TokenValues}
      \cup {WithValue(WithValue(Background, startupContextKey, v),
                      startupContextKey, w) : v, w \in TokenValues}

\* The variadic arguments
Expecteds == {<<>>, <<0>>, <<1>>, <<2>>, <<1, 2>>, <<2, 1>>}

\* ok := isValidContext(ctx, ts...)
CallIsValidContext ==
    /\ ~vcall.called
    /\ vcall' = [called |-> TRUE, ctx |-> vcall.ctx, ts |-> vcall.ts,
                 out |-> isValidContext(vcall.ctx, vcall.ts)]
    /\ UNCHANGED <<hookVars, abortVars, traceVars, lcall>>

InitValid ==
    /\ NoListener /\ NoHandlers
    /\ tctx = Background /\ tcalls = <<>> /\ last = NoCall
    /\ lcall = NoHelperCall
    /\ vcall \in [called : {FALSE}, ctx : CheckedContexts, ts : Expecteds]

NextValid == CallIsValidContext

SpecValid == InitValid /\ [][NextValid]_vars

\* the attachments of ctx under the startup key, nearest last
TokensOf(ctx) == SelectSeq(ctx.vals, LAMBDA e : e.k = startupContextKey)

\* C16: isValidContext returns false when ctx is nil, when ctx carries no
\* startup token (nothing, or nil, is found under the key), when the token
\* is not an integer (a Go int64) greater than 0, and when an expected
\* timestamp is supplied and its first value differs from the token; it
\* returns true in every other case, so for a positive token with no
\* expected timestamp.
C16_IsValidContext ==
    vcall.called =>
        LET ctx == vcall.ctx
            toks == TokensOf(ctx)
            noToken == toks = <<>> \/ toks[Len(toks)].v = NilValue
            tok == toks[Len(toks)]
        IN  vcall.out <=>
               /\ ~ctx.isNil
               /\ ~noToken
               /\ tok.v.t = "int64" /\ tok.v.n > 0
               /\ ~(Len(vcall.ts) > 0 /\ vcall.ts[1] # tok.v.n)

\* a positive token with no expected timestamp passed, an older token that
\* is not positive being further up the chain
C16_Witness ==
    /\ vcall.called
    /\ vcall.ts = <<>>
    /\ vcall.out
    /\ Len(TokensOf(vcall.ctx)) = 2
    /\ TokensOf(vcall.ctx)[1].v = Int64(0)
    /\ TokensOf(vcall.ctx)[2].v = Int64(2)

-----------------------------------------------------------------------------
(* The folds over lists that hold the hook "keep": every registration has  *)
(* returned before the listener starts                                     *)

InitKeep ==
    /\ startTime \in StartTimes
    /\ \E a \in SeqsUpTo(KeepKinds, MaxHooks),
          c \in SeqsUpTo(KeepKinds, MaxHooks) :
            /\ regArgs = [r \in Registrars |->
                             IF r = "b1" THEN a ELSE IF r = "c1" THEN c ELSE <<>>]
            /\ hooks = [ch \in Registries |->
                           IF ch = "base" THEN Registered("b1", a)
                                          ELSE Registered("c1", c)]
    /\ addLog = hooks
    /\ mutex = [ch \in Registries |-> FALSE]
    /\ regPc = [r \in Registrars |-> "done"]
    /\ regI = [r \in Registrars |-> Len(regArgs[r]) + 1]
    /\ regTmp = [r \in Registrars |-> <<>>]
    /\ foldPc = [f \in Folds |-> "idle"]
    /\ foldHooks = [f \in Folds |-> <<>>]
    /\ foldI = [f \in Folds |-> 1]
    /\ foldIn = [f \in Folds |-> NilCtx]
    /\ foldAcc = [f \in Folds |-> NilCtx]
    /\ callLog = [f \in Folds |-> <<>>]
    /\ regsDoneAtBase = FALSE
    /\ kept = NilCtx
    /\ NoHandlers
    /\ NoCallers

SpecKeep == InitKeep /\ [][NextFold]_vars

\* the attachments a hook call made below the context it was given
AttachedBy(e) ==
    IF Descends(e.out, e.in)
    THEN {e.out.vals[j] : j \in (Len(e.in.vals) + 1)..Len(e.out.vals)}
    ELSE {}

\* C17: in a finished fold, every value attached by a hook whose result was
\* adopted is still read from the context the fold returns: no later hook
\* made the fold drop it.
C17_AdoptedValuesKept ==
    \A f \in Folds :
        foldPc[f] = "done" =>
            \A i \in Adopted(f) : \A e \in AttachedBy(callLog[f][i]) :
                Value(foldAcc[f], e.k) = e.v

\* C18: from the moment a fold has its initial context, at every step and
\* at its return, its accumulator carries the listener's start time as its
\* startup token and is valid for it, and so was the context given to every
\* hook, whatever the hooks returned.
C18_AccumulatorCarriesToken ==
    \A f \in Folds :
        foldPc[f] \in {"locked", "done"} =>
            /\ Value(foldAcc[f], startupContextKey) = Int64(startTime)
            /\ isValidContext(foldAcc[f], <<startTime>>)
            /\ isValidContext(foldIn[f], <<startTime>>)
            /\ \A i \in DOMAIN callLog[f] :
                  /\ isValidContext(callLog[f][i].in, <<startTime>>)
                  /\ isValidContext(callLog[f][i].acc, <<startTime>>)

\* the base fold returned after a hook result without a token was rejected
\* and the context of another listener, stamped in the same second, was
\* adopted, and a connection fold returned after a nil result was rejected
C18_Witness ==
    /\ foldPc[0] = "done"
    /\ Len(callLog[0]) = 2
    /\ callLog[0][1].hook.kind = "fresh" /\ Rejected(callLog[0][1])
    /\ callLog[0][2].hook.kind = "foreign" /\ ~Rejected(callLog[0][2])
    /\ \E c \in Conns :
          /\ foldPc[c] = "done"
          /\ \E i \in DOMAIN callLog[c] :
                callLog[c][i].hook.kind = "nil" /\ Rejected(callLog[c][i])

-----------------------------------------------------------------------------
(* Hooks that call AddBaseHooks/AddConnHooks while a fold runs them *)

\* the hook the fold is about to call, or is running
CurrentHook(f) == RangeElem(foldHooks[f], foldI[f])

\* fnCtx := fn(ctx): the fold calls a hook that registers; the hook's call
\* of Add is at its Lock
HookCall(f) ==
    /\ foldPc[f] = "locked"
    /\ foldI[f] <= Len(foldHooks[f])
    /\ CurrentHook(f).kind \in RegKinds
    /\ foldPc' = [foldPc EXCEPT ![f] = "hookLock"]
    /\ UNCHANGED <<abortVars, traceVars, callVars, kept, startTime, hooks, mutex,
                   regArgs, regPc, regI, regTmp, foldHooks, foldI, foldIn,
                   foldAcc, callLog, addLog, regsDoneAtBase>>

\* ch.Lock() inside the hook's call of Add
HookAddLock(f) ==
    /\ foldPc[f] = "hookLock"
    /\ CanLock(RegTarget(CurrentHook(f).kind))
    /\ mutex' = Lock(mutex, RegTarget(CurrentHook(f).kind))
    /\ foldPc' = [foldPc EXCEPT ![f] = "hookAppend"]
    /\ UNCHANGED <<abortVars, traceVars, callVars, kept, startTime, hooks,
                   regArgs, regPc, regI, regTmp, foldHooks, foldI, foldIn,
                   foldAcc, callLog, addLog, regsDoneAtBase>>

\* ch.hooks = append(ch.hooks, hook) inside the hook's call of Add
HookAddAppend(f) ==
    /\ foldPc[f] = "hookAppend"
    /\ LET ch == RegTarget(CurrentHook(f).kind)
           hook == [reg |-> "hook", idx |-> f, kind |-> "tagA"]
       IN  /\ hooks' = [hooks EXCEPT ![ch] = append(@, hook)]
           /\ addLog' = [addLog EXCEPT ![ch] = Append(@, hook)]
    /\ foldPc' = [foldPc EXCEPT ![f] = "hookUnlock"]
    /\ UNCHANGED <<abortVars, traceVars, callVars, kept, startTime, mutex,
                   regArgs, regPc, regI, regTmp, foldHooks, foldI, foldIn,
                   foldAcc, callLog, regsDoneAtBase>>

\* the deferred ch.Unlock() of Add; the hook returns the context it was
\* given and the fold goes on with the rest of its loop body
HookReturn(f) ==
    /\ foldPc[f] = "hookUnlock"
    /\ mutex' = Unlock(mutex, RegTarget(CurrentHook(f).kind))
    /\ LET fnCtx == HookApply(CurrentHook(f).kind, ClosureCtx(foldAcc, f))
           ctx == Adopt(ClosureCtx(foldAcc, f), fnCtx, startTime)
       IN  /\ foldAcc' = [foldAcc EXCEPT ![f] = ctx]
           /\ callLog' = [callLog EXCEPT ![f] =
                  Append(@, [hook |-> CurrentHook(f),
                             in |-> ClosureCtx(foldAcc, f),
                             out |-> fnCtx, acc |-> ctx])]
    /\ foldI' = [foldI EXCEPT ![f] = @ + 1]
    /\ foldPc' = [foldPc EXCEPT ![f] = "locked"]
    /\ UNCHANGED <<abortVars, traceVars, callVars, kept, startTime, hooks,
                   regArgs, regPc, regI, regTmp, foldHooks, foldIn, addLog,
                   regsDoneAtBase>>

\* The listener starts with one hook in each list, registered by b1 and b2;
\* c1's call of AddConnHooks runs while the listener does
InitReent ==
    /\ startTime \in StartTimes
    /\ \E a \in SeqsOfLen({"tagA"} \cup RegKinds, 1),
          b \in SeqsOfLen({"tagA"} \cup RegKinds, 1) :
            /\ regArgs = [r \in Registrars |->
                             IF r = "b1" THEN a ELSE IF r = "b2" THEN b
                             ELSE <<"tagA">>]
            /\ hooks = [ch \in Registries |->
                           IF ch = "base" THEN Registered("b1", a)
                                          ELSE Registered("b2", b)]
    /\ addLog = hooks
    /\ mutex = [ch \in Registries |-> FALSE]
    /\ regPc = [r \in Registrars |-> IF r = "c1" THEN "lock" ELSE "done"]
    /\ regI = [r \in Registrars |-> IF r = "c1" THEN 1 ELSE 2]
    /\ regTmp = [r \in Registrars |-> <<>>]
    /\ foldPc = [f \in Folds |-> "idle"]
    /\ foldHooks = [f \in Folds |-> <<>>]
    /\ foldI = [f \in Folds |-> 1]
    /\ foldIn = [f \in Folds |-> NilCtx]
    /\ foldAcc = [f \in Folds |-> NilCtx]
    /\ callLog = [f \in Folds |-> <<>>]
    /\ regsDoneAtBase = FALSE
    /\ kept = NilCtx
    /\ NoHandlers
    /\ NoCallers

NextReent ==
    \/ \E r \in Registrars : AddConnHooks(r)
    \/ baseContext
    \/ \E c \in Conns : connContext(c)
    \/ \E f \in Folds : HookCall(f)
    \/ \E f \in Folds : HookAddLock(f)
    \/ \E f \in Folds : HookAddAppend(f)
    \/ \E f \in Folds : HookReturn(f)

\* the scheduler is fair: a step is taken whenever one can be
SpecReent == InitReent /\ [][NextReent]_vars /\ WF_vars(NextReent)

\* C19: under fair scheduling every AddBaseHooks/AddConnHooks call that
\* has not returned eventually returns, every fold that has started
\* eventually returns, and the registry mutexes end up unlocked, also when
\* a hook calls AddBaseHooks or AddConnHooks from inside a fold.
C19_NoDeadlock ==
    /\ \A r \in Registrars : (regPc[r] # "done") ~> (regPc[r] = "done")
    /\ \A f \in Folds : (foldPc[f] # "idle") ~> (foldPc[f] = "done")
    /\ <>[](\A ch \in Registries : ~mutex[ch])

====
